---- MODULE Spec2Model ----
(***************************************************************************)
(* Multi-provider face swap gateway (services/face_swap_gateway.py).       *)
(*                                                                         *)
(* One swap_face call of FaceSwapGateway is modelled as a state machine:   *)
(* validation and normalisation of the two inputs, the provider chain, the *)
(* per-provider retry loop with exponential backoff, and the three         *)
(* concrete adapters (Nano-Banana, PiAPI, Replicate) next to an arbitrary  *)
(* FaceSwapProvider implementation that follows the abstract contract only.*)
(* Strings are sequences of one-character strings.                         *)
(***************************************************************************)
EXTENDS Integers, Sequences, FiniteSets, TLC

(***************************************************************************)
(* Bounds of the model.                                                    *)
(***************************************************************************)
\* largest retry_count a call is started with
MaxRetry == 2
\* longest chain of arbitrary FaceSwapProvider implementations
MaxChain == 3

(***************************************************************************)
(* Strings.                                                                *)
(***************************************************************************)
UpperCase == <<"A","B","C","D","E","F","G","H","I","J","K","L","M",
               "N","O","P","Q","R","S","T","U","V","W","X","Y","Z">>
LowerCase == <<"a","b","c","d","e","f","g","h","i","j","k","l","m",
               "n","o","p","q","r","s","t","u","v","w","x","y","z">>
Digits == <<"0","1","2","3","4","5","6","7","8","9">>

\* the base-64 alphabet in value order (value = position - 1)
B64Alphabet == UpperCase \o LowerCase \o Digits \o <<"+", "/">>

Range(s) == { s[i] : i \in DOMAIN s }

\* ASCII characters that are no base-64 digit
AsciiOther == {":", ";", ",", "=", "!", " ", ".", "-", "_"}

IsAscii(c) == c \in Range(B64Alphabet) \cup AsciiOther

\* str.lower() of one character (re.IGNORECASE compares case-folded)
LowerChar(c) ==
    IF c \in Range(UpperCase)
    THEN LowerCase[CHOOSE i \in DOMAIN UpperCase : UpperCase[i] = c]
    ELSE c

Lower(s) == [i \in DOMAIN s |-> LowerChar(s[i])]

\* str.startswith
StartsWith(s, p) == Len(s) >= Len(p) /\ SubSeq(s, 1, Len(p)) = p

\* literals of the source
HTTP == <<"h","t","t","p",":","/","/">>
HTTPS == <<"h","t","t","p","s",":","/","/">>
DATA == <<"d","a","t","a",":">>
IMAGE == <<"i","m","a","g","e">>
VIDEO == <<"v","i","d","e","o">>
SLASH == <<"/">>
BASE64_ == <<";","b","a","s","e","6","4",",">>
JPEG == <<"j","p","e","g">>
JPG == <<"j","p","g">>
PNG == <<"p","n","g">>
GIF == <<"g","i","f">>
WEBP == <<"w","e","b","p">>
BMP == <<"b","m","p">>
MP4 == <<"m","p","4">>
AVI == <<"a","v","i">>
MOV == <<"m","o","v">>
WEBM == <<"w","e","b","m">>

\* re.match(r'^data:(k1|k2..)/(f1|f2..);base64,', data, re.IGNORECASE)
MatchDataUri(data, kinds, formats) ==
    \E k \in kinds : \E f \in formats :
        StartsWith(Lower(data), DATA \o k \o SLASH \o f \o BASE64_)

(***************************************************************************)
(* base64.b64decode(data) on a str, validate=False: non-ASCII raises, then *)
(* binascii.a2b_base64 in its lenient mode.                                *)
(***************************************************************************)
B64Val(c) == (CHOOSE i \in DOMAIN B64Alphabet : B64Alphabet[i] = c) - 1

\* the scan of a2b_base64: quad is the position in the current group of
\* four digits, pads the number of "=" seen since the last digit, acc the
\* digits' values. Characters outside the alphabet are skipped; a pad that
\* completes a group ends the scan; a group left open is an error.
RECURSIVE B64Scan(_, _, _, _, _)
B64Scan(s, i, quad, pads, acc) ==
    IF i > Len(s)
    THEN [ok |-> quad = 0, vals |-> acc]
    ELSE IF s[i] = "="
         THEN IF quad >= 2 /\ quad + pads + 1 >= 4
              THEN [ok |-> TRUE, vals |-> acc]
              ELSE B64Scan(s, i + 1, quad,
                           IF quad >= 2 THEN pads + 1 ELSE pads, acc)
         ELSE IF s[i] \notin Range(B64Alphabet)
              THEN B64Scan(s, i + 1, quad, pads, acc)
              ELSE B64Scan(s, i + 1, (quad + 1) % 4, 0,
                           Append(acc, B64Val(s[i])))

\* the bytes that a sequence of 6-bit values stands for
RECURSIVE B64Bytes(_)
B64Bytes(v) ==
    IF Len(v) >= 4
    THEN << v[1] * 4 + v[2] \div 16,
            (v[2] % 16) * 16 + v[3] \div 4,
            (v[3] % 4) * 64 + v[4] >> \o B64Bytes(SubSeq(v, 5, Len(v)))
    ELSE IF Len(v) = 3
         THEN << v[1] * 4 + v[2] \div 16, (v[2] % 16) * 16 + v[3] \div 4 >>
         ELSE IF Len(v) = 2
              THEN << v[1] * 4 + v[2] \div 16 >>
              ELSE << >>

\* [ok |-> FALSE] stands for the exception b64decode raises
b64decode(data) ==
    IF \E i \in DOMAIN data : ~IsAscii(data[i])
    THEN [ok |-> FALSE, bytes |-> << >>]
    ELSE LET r == B64Scan(data, 1, 0, 0, << >>)
         IN  [ok |-> r.ok, bytes |-> IF r.ok THEN B64Bytes(r.vals) ELSE << >>]

(***************************************************************************)
(* PIL.Image.open(...).format: the container is recognised by the          *)
(* signature its bytes begin with; "ERR" stands for the exception raised   *)
(* for bytes that are no image.                                            *)
(***************************************************************************)
ImageOpenFormat(bytes) ==
    IF StartsWith(bytes, <<137, 80, 78, 71, 13, 10, 26, 10>>) THEN "PNG"
    ELSE IF StartsWith(bytes, <<255, 216, 255>>) THEN "JPEG"
    ELSE IF StartsWith(bytes, <<71, 73, 70, 56, 57, 97>>) THEN "GIF"
    ELSE IF StartsWith(bytes, <<71, 73, 70, 56, 55, 97>>) THEN "GIF"
    ELSE IF StartsWith(bytes, <<66, 77>>) THEN "BMP"
    ELSE IF /\ StartsWith(bytes, <<82, 73, 70, 70>>)
            /\ Len(bytes) >= 12
            /\ SubSeq(bytes, 9, 12) = <<87, 69, 66, 80>> THEN "WEBP"
    ELSE IF StartsWith(bytes, <<73, 73, 42, 0>>) THEN "TIFF"
    ELSE "ERR"

(***************************************************************************)
(* FaceSwapGateway._validate_input and _normalize_base64.                  *)
(***************************************************************************)
ImageFormats == {JPEG, JPG, PNG, GIF, WEBP, BMP}
VideoFormats == {MP4, AVI, MOV, WEBM}

IsUrl(data) == StartsWith(data, HTTP) \/ StartsWith(data, HTTPS)

\* Python's None, where a str is optional
None == "None"

\* mutant: every string is accepted
validate_input_any(data, media_type) == <<TRUE, None>>

\* <<is_valid, error_message>>
validate_input(data, media_type) ==
    IF IsUrl(data) THEN <<TRUE, None>>
    ELSE IF IF media_type = "video"
            THEN MatchDataUri(data, {IMAGE, VIDEO},
                              ImageFormats \cup VideoFormats)
            ELSE MatchDataUri(data, {IMAGE}, ImageFormats)
         THEN <<TRUE, None>>
         ELSE IF b64decode(data).ok
              THEN <<TRUE, None>>
              ELSE <<FALSE,
                     IF media_type = "video"
                     THEN "Invalid input: must be URL or base64 encoded video"
                     ELSE "Invalid input: must be URL or base64 encoded image">>

\* mutant: every container is tagged jpeg
format_map_jpeg_only(fmt) == JPEG

format_map(fmt) ==
    CASE fmt = "JPEG" -> JPEG
      [] fmt = "PNG" -> PNG
      [] fmt = "GIF" -> GIF
      [] fmt = "WEBP" -> WEBP
      [] fmt = "BMP" -> BMP
      [] OTHER -> JPEG

\* mutant: a URL is tagged like a raw payload
normalize_base64_no_url(data) ==
    IF MatchDataUri(data, {IMAGE, VIDEO}, ImageFormats \cup {MP4, AVI, MOV})
    THEN data
    ELSE LET dec == b64decode(data)
             fmt == IF dec.ok THEN ImageOpenFormat(dec.bytes) ELSE "ERR"
         IN  DATA \o IMAGE \o SLASH \o format_map(fmt) \o BASE64_ \o data

normalize_base64(data) ==
    IF IsUrl(data) THEN data
    ELSE IF MatchDataUri(data, {IMAGE, VIDEO},
                         ImageFormats \cup {MP4, AVI, MOV})
         THEN data
         ELSE LET dec == b64decode(data)
                  fmt == IF dec.ok THEN ImageOpenFormat(dec.bytes) ELSE "ERR"
              IN  DATA \o IMAGE \o SLASH \o format_map(fmt) \o BASE64_ \o data

(***************************************************************************)
(* The gateway object and one swap_face call.                              *)
(***************************************************************************)
VARIABLES
    replicate_token,  \* self.replicate_token: None or the credential
    piapi_key,        \* self.piapi_key
    providers,        \* self.providers: the chain, by provider class
    arg,              \* the arguments the caller passed to swap_face
    cancelled,        \* whether the caller cancelled the call's task
    parked,           \* the frame of a second call on the same gateway
                      \* while this call runs (NoCall where there is none)
    target,           \* local target (rebound by normalisation)
    source,           \* local source
    pc,               \* where the call is suspended
    p,                \* position of the outer loop in providers (1-based)
    attempt,          \* the inner loop's attempt
    slept,            \* backoff awaited since the previous adapter invocation
    calls,            \* history: the adapter invocations made, in order
    returns,          \* history: how each finished invocation ended
    backoffs,         \* history: the backoff delays awaited, in order
    result,           \* what swap_face returned (Running until it returns)
    remote,           \* remote calls issued by the invocation in flight
    rep_i,            \* ReplicateProvider: position in sorted_models
    task_id,          \* PiAPIProvider: the created task
    elapsed,          \* PiAPIProvider: time.time() - start_time
    abandoned         \* executor: sub-models with a run that wait_for gave
                      \* up on at its timeout and that has not ended yet

gateway == <<replicate_token, piapi_key, providers>>
caller == <<arg, cancelled, parked>>
locals == <<target, source, p, attempt>>
adapter == <<rep_i, task_id, elapsed>>
vars == <<replicate_token, piapi_key, providers, arg, cancelled, parked,
          target, source, pc, p, attempt, slept, calls, returns, backoffs,
          result, remote, rep_i, task_id, elapsed, abandoned>>

NanoBanana == "Nano-Banana"
PiAPI == "PiAPI"
Replicate == "Replicate"
\* any other implementation of the abstract FaceSwapProvider
Custom == "Custom"

\* mutant: PiAPI is put before Nano-Banana
BuildChainPiAPIFirst(token, key) ==
    (IF key # None /\ key # "" THEN <<PiAPI>> ELSE << >>)
    \o (IF token # None /\ token # "" THEN <<NanoBanana>> ELSE << >>)
    \o (IF token # None /\ token # "" THEN <<Replicate>> ELSE << >>)

\* FaceSwapGateway.__init__: the chain the credentials give
BuildChain(token, key) ==
    (IF token # None /\ token # "" THEN <<NanoBanana>> ELSE << >>)
    \o (IF key # None /\ key # "" THEN <<PiAPI>> ELSE << >>)
    \o (IF token # None /\ token # "" THEN <<Replicate>> ELSE << >>)

Credentials == {None, "secret"}
\* os.environ.get also returns the empty string, for a variable set to it
WideCredentials == Credentials \cup {""}

\* chains of arbitrary FaceSwapProvider implementations put in self.providers
CustomChains == UNION { [1..n -> {Custom}] : n \in 1..MaxChain }

\* strings a caller passes as target or source
UrlInput == HTTPS \o <<"a">>
RawPngInput == <<"i","V","B","O","R","w","0","K","G","g","o","=">>
Mp4UriInput == DATA \o VIDEO \o SLASH \o MP4 \o BASE64_ \o <<"A","A","A","A">>
BadInput == <<"a","b","c">>
\* one character outside ASCII
NonAsciiInput == <<"U+00E9">>
Inputs == {UrlInput, RawPngInput, Mp4UriInput, BadInput, NonAsciiInput}

\* further strings: a plain-http URL, raw base64 of the other containers, of
\* bytes that are no image, the empty string, and a padded payload cut short
HttpUrlInput == HTTP \o <<"a">>
RawJpegInput == <<"/","9","j","/">>
RawGifInput == <<"R","0","l","G","O","D","l","h">>
RawBmpInput == <<"Q","k","0","A">>
RawWebpInput ==
    <<"U","k","l","G","R","g","A","A","A","A","B","X","R","U","J","Q">>
RawTiffInput == <<"S","U","k","q","A","A","=","=">>
RawNoImageInput == <<"A","A","A","A">>
EmptyInput == << >>
BadPaddingInput == <<"a","b","=">>
\* data URIs of every kind and format either pattern names, and one in
\* upper case
DataUri(kind, fmt) ==
    DATA \o kind \o SLASH \o fmt \o BASE64_ \o <<"A","A","A","A">>
DataUriInputs ==
    { DataUri(k, f) : k \in {IMAGE, VIDEO}, f \in ImageFormats \cup VideoFormats }
UpperPngUriInput ==
    DATA \o <<"I","M","A","G","E">> \o SLASH \o <<"P","N","G">> \o BASE64_
      \o <<"A","A","A","A">>
WideInputs ==
    Inputs \cup {HttpUrlInput, RawJpegInput, RawGifInput, RawBmpInput,
                 RawWebpInput, RawTiffInput, RawNoImageInput, EmptyInput,
                 BadPaddingInput, UpperPngUriInput}
           \cup DataUriInputs

MediaTypes == {"image", "video"}
WebhookUrls == {None, "https://caller/hook"}

Args == [target : Inputs, source : Inputs, media_type : MediaTypes,
         retry_count : 0..MaxRetry, webhook_url : WebhookUrls]

\* calls in which one of target and source ranges over the further strings
WideArgs ==
    { a \in [target : WideInputs, source : WideInputs,
             media_type : MediaTypes, retry_count : 0..MaxRetry,
             webhook_url : {None}] :
        a.target = UrlInput \/ a.source = UrlInput }

\* the value of result while swap_face has not returned
Running == [running |-> TRUE]

\* no second call
NoCall == [none |-> TRUE]

\* the frame of a call of swap_face(**a) that has not begun to run
NewCall(a) ==
    [arg |-> a, cancelled |-> FALSE, target |-> a.target,
     source |-> a.source, pc |-> "start", p |-> 0, attempt |-> 0,
     slept |-> 0, calls |-> << >>, returns |-> << >>, backoffs |-> << >>,
     result |-> Running, remote |-> << >>, rep_i |-> 0, task_id |-> None,
     elapsed |-> 0]

\* a gateway constructed with credentials of creds, or given a chain of
\* chains, a call of swap_face with arguments of args, and a second call of
\* others
InitWith(creds, chains, args, others) ==
    /\ replicate_token \in creds
    /\ piapi_key \in creds
    /\ \/ providers = BuildChain(replicate_token, piapi_key)
       \/ /\ replicate_token = None
          /\ piapi_key = None
          /\ providers \in chains
    /\ arg \in args
    /\ cancelled = FALSE
    /\ parked \in others
    /\ target = arg.target
    /\ source = arg.source
    /\ pc = "start"
    /\ p = 0
    /\ attempt = 0
    /\ slept = 0
    /\ calls = << >>
    /\ returns = << >>
    /\ backoffs = << >>
    /\ result = Running
    /\ remote = << >>
    /\ rep_i = 0
    /\ task_id = None
    /\ elapsed = 0
    /\ abandoned = {}

Init == InitWith(Credentials, CustomChains, Args, {NoCall})

InitInputs == InitWith(WideCredentials, CustomChains, WideArgs, {NoCall})

(***************************************************************************)
(* FaceSwapGateway.swap_face: the results it builds itself.                *)
(***************************************************************************)
ValidationFailure(message) == [success |-> FALSE, error |-> message]

\* mutant: the empty chain is reported as the aggregate failure
NoProvidersAsAllFailed ==
    [success |-> FALSE,
     error |-> "All face swap providers failed after retries",
     error_code |-> "ALL_PROVIDERS_FAILED"]

NoProvidersResult ==
    [success |-> FALSE,
     error |-> "No face swap providers configured (missing API keys)"]

\* mutant: the aggregate failure lacks its error code
AllProvidersFailedNoCode ==
    [success |-> FALSE,
     error |-> "All face swap providers failed after retries"]

AllProvidersFailedResult ==
    [success |-> FALSE,
     error |-> "All face swap providers failed after retries",
     error_code |-> "ALL_PROVIDERS_FAILED"]

\* result.get("success")
Succeeded(res) == "success" \in DOMAIN res /\ res.success = TRUE

\* mutant: the exponent is one too small
wait_time_half(n) == 2 ^ (n - 1)

\* wait_time = 2 ** attempt
wait_time(n) == 2 ^ n

\* mutant: range(retry_count), one attempt too few
HasNextAttemptOneLess(n, retry_count) == n + 1 < retry_count

\* mutant: range(retry_count + 2), one attempt too many
HasNextAttemptOneMore(n, retry_count) == n + 1 < retry_count + 2

\* range(retry_count + 1): is there an attempt after attempt n
HasNextAttempt(n, retry_count) == n + 1 < retry_count + 1

\* mutant: every adapter is handed the webhook URL
WebhookForAll(provider, webhook_url) == webhook_url

\* webhook_url if isinstance(provider, PiAPIProvider) else None
WebhookFor(provider, webhook_url) ==
    IF provider = PiAPI THEN webhook_url ELSE None

\* return <res>
Return(res) ==
    /\ pc' = "done"
    /\ result' = res
    /\ UNCHANGED <<p, attempt>>

\* the outer loop moves to the next provider, or ends and the call returns
\* the aggregate failure
NextProvider ==
    IF p < Len(providers)
    THEN /\ p' = p + 1
         /\ attempt' = 0
         /\ pc' = "call"
         /\ UNCHANGED result
    ELSE Return(AllProvidersFailedResult)

\* the inner loop moves to the next attempt, which begins with its backoff
\* sleep, or ends
NextAttempt ==
    IF HasNextAttempt(attempt, arg.retry_count)
    THEN /\ attempt' = attempt + 1
         /\ pc' = "backoff"
         /\ UNCHANGED <<p, result>>
    ELSE NextProvider

\* mutant: a reported failure is retried like a raised fault
AdapterReturnsRetrying(res) ==
    /\ returns' = Append(returns, [kind |-> "return", value |-> res])
    /\ IF Succeeded(res) THEN Return(res) ELSE NextAttempt

\* mutant: a success does not end the call
AdapterReturnsFallsThrough(res) ==
    /\ returns' = Append(returns, [kind |-> "return", value |-> res])
    /\ NextProvider

\* result = await provider.swap_face(...) returned res
AdapterReturns(res) ==
    /\ returns' = Append(returns, [kind |-> "return", value |-> res])
    /\ IF Succeeded(res) THEN Return(res) ELSE NextProvider

\* mutant: the exception is not caught and leaves swap_face
AdapterRaisesEscapes ==
    /\ returns' = Append(returns, [kind |-> "raise"])
    /\ pc' = "raised"
    /\ UNCHANGED <<p, attempt, result>>

\* await provider.swap_face(...) raised an Exception
AdapterRaises ==
    /\ returns' = Append(returns, [kind |-> "raise"])
    /\ NextAttempt

\* provider.swap_face(target=..., source=..., media_type=..., webhook_url=...)
Invoke ==
    /\ calls' = Append(calls,
                       [p |-> p, provider |-> providers[p],
                        attempt |-> attempt, wait |-> slept,
                        target |-> target, source |-> source,
                        media_type |-> arg.media_type,
                        webhook_url |->
                            WebhookFor(providers[p], arg.webhook_url)])
    /\ slept' = 0

\* swap_face up to its first suspension: validation, normalisation, the
\* check for an empty chain, and the entry into the loops
SwapFaceBegin ==
    /\ pc = "start"
    /\ LET tv == validate_input(target, arg.media_type)
           sv == validate_input(source, "image")
       IN  IF ~tv[1]
           THEN Return(ValidationFailure(tv[2])) /\ UNCHANGED <<target, source>>
           ELSE IF ~sv[1]
                THEN /\ Return(ValidationFailure(sv[2]))
                     /\ UNCHANGED <<target, source>>
                ELSE /\ target' = normalize_base64(target)
                     /\ source' = normalize_base64(source)
                     /\ IF providers = << >>
                        THEN Return(NoProvidersResult)
                        ELSE /\ p' = 1
                             /\ attempt' = 0
                             /\ pc' = "call"
                             /\ UNCHANGED result
    /\ UNCHANGED <<gateway, caller, abandoned,
                   slept, calls, returns, backoffs, remote,
                   adapter>>

\* await asyncio.sleep(wait_time) ends
Backoff ==
    /\ pc = "backoff"
    /\ slept' = wait_time(attempt)
    /\ backoffs' = Append(backoffs, [p |-> p, attempt |-> attempt,
                                     delay |-> wait_time(attempt)])
    /\ pc' = "call"
    /\ UNCHANGED <<gateway, caller, abandoned,
                   locals, calls, returns, result, remote,
                   adapter>>

(***************************************************************************)
(* An arbitrary FaceSwapProvider: swap_face returns a result or raises.    *)
(***************************************************************************)
CustomSuccess ==
    [success |-> TRUE, result_url |-> "https://custom/out", provider |-> Custom]

CustomFailure ==
    [success |-> FALSE, error |-> "custom failure", provider |-> Custom]

CustomSwapFace ==
    /\ pc = "call"
    /\ providers[p] = Custom
    /\ Invoke
    /\ \/ AdapterReturns(CustomSuccess)
       \/ AdapterReturns(CustomFailure)
       \/ AdapterRaises
    /\ remote' = << >>
    /\ UNCHANGED <<gateway, caller, abandoned,
                   target, source, backoffs, adapter>>

(***************************************************************************)
(* NanoBananaProvider.swap_face.                                           *)
(***************************************************************************)
\* NanoBananaProvider.TIMEOUT
NANO_TIMEOUT == 60

\* how an awaited remote call ends: a non-empty output, an empty one,
\* asyncio.TimeoutError, or another Exception
RunOutcomes == {"output", "empty", "timeout", "error"}

Failure(provider, message) ==
    [success |-> FALSE, error |-> message, provider |-> provider]

\* the last request of reqs with the answer it got
Answered(reqs, outcome) == [reqs EXCEPT ![Len(reqs)].answer = outcome]

\* asyncio.wait_for gives up at the timeout; replicate.run goes on in its
\* executor thread
Abandon(reqs, outcome) ==
    IF outcome = "timeout" THEN abandoned \cup {reqs[Len(reqs)].model}
    ELSE abandoned

NanoBananaResult(outcome) ==
    CASE outcome = "output" ->
            [success |-> TRUE,
             result_url |-> "https://replicate/out",
             message |->
                "Face swap completed via Nano-Banana (Gemini 2.5 Flash Image)",
             provider |-> NanoBanana,
             model |-> "google/nano-banana",
             watermark |-> "SynthID (invisible)"]
      [] outcome = "empty" -> Failure(NanoBanana, "No output from Nano-Banana")
      [] outcome = "timeout" -> Failure(NanoBanana, "Nano-Banana timeout (60s)")
      [] outcome = "error" -> Failure(NanoBanana, "str(e)")

\* the call up to await asyncio.wait_for(run_in_executor(_run), TIMEOUT)
NanoBananaSwapFace ==
    /\ pc = "call"
    /\ providers[p] = NanoBanana
    /\ Invoke
    /\ IF arg.media_type = "video"
       THEN /\ AdapterReturns(Failure(NanoBanana,
                    "Nano-Banana does not support video face swap"))
            /\ remote' = << >>
       ELSE /\ remote' = << [api |-> "replicate.run",
                             model |-> "google/nano-banana",
                             timeout |-> NANO_TIMEOUT,
                             answer |-> "awaited"] >>
            /\ pc' = "nano_run"
            /\ UNCHANGED <<p, attempt, result, returns>>
    /\ UNCHANGED <<gateway, caller, abandoned,
                   target, source, backoffs, adapter>>

\* mutant: asyncio.TimeoutError leaves the adapter
NanoBananaRunDoneRaising ==
    /\ pc = "nano_run"
    /\ \E outcome \in RunOutcomes :
          /\ IF outcome = "timeout" THEN AdapterRaises
             ELSE AdapterReturns(NanoBananaResult(outcome))
          /\ remote' = Answered(remote, outcome)
          /\ abandoned' = Abandon(remote, outcome)
    /\ UNCHANGED <<gateway, caller, target, source, slept, calls, backoffs,
                   adapter>>

\* the awaited run ends
NanoBananaRunDone ==
    /\ pc = "nano_run"
    /\ \E outcome \in RunOutcomes :
          /\ AdapterReturns(NanoBananaResult(outcome))
          /\ remote' = Answered(remote, outcome)
          /\ abandoned' = Abandon(remote, outcome)
    /\ UNCHANGED <<gateway, caller, target, source, slept, calls, backoffs,
                   adapter>>

(***************************************************************************)
(* ReplicateProvider.swap_face.                                            *)
(***************************************************************************)
\* ReplicateProvider.MODELS
EASEL_TIMEOUT == 90
OMNIEDGE_TIMEOUT == 60
EASEL_PRIORITY == 1
OMNIEDGE_PRIORITY == 2

REPLICATE_MODELS ==
    { [name |-> "easel/advanced-face-swap", timeout |-> EASEL_TIMEOUT,
       priority |-> EASEL_PRIORITY],
      [name |-> "omniedgeio/face-swap", timeout |-> OMNIEDGE_TIMEOUT,
       priority |-> OMNIEDGE_PRIORITY] }

\* mutant: the sub-models are taken in descending priority
RECURSIVE SortByPriorityDescending(_)
SortByPriorityDescending(models) ==
    IF models = {} THEN << >>
    ELSE LET first == CHOOSE m \in models :
                          \A o \in models : m.priority >= o.priority
         IN  <<first>> \o SortByPriorityDescending(models \ {first})

\* sorted(self.MODELS.items(), key=lambda x: x[1]["priority"])
RECURSIVE SortByPriority(_)
SortByPriority(models) ==
    IF models = {} THEN << >>
    ELSE LET first == CHOOSE m \in models :
                          \A o \in models : m.priority <= o.priority
         IN  <<first>> \o SortByPriority(models \ {first})

sorted_models == SortByPriority(REPLICATE_MODELS)

ReplicateRun(i) ==
    [api |-> "replicate.run", model |-> sorted_models[i].name,
     timeout |-> sorted_models[i].timeout, answer |-> "awaited"]

ReplicateSuccess(i) ==
    [success |-> TRUE,
     result_url |-> "https://replicate/out",
     message |-> "Face swap completed via model",
     provider |-> Replicate,
     model |-> sorted_models[i].name]

\* variant: the sub-models are run for a video request as well
ReplicateSwapFaceNoVideoCheck ==
    /\ pc = "call"
    /\ providers[p] = Replicate
    /\ Invoke
    /\ rep_i' = 1
    /\ remote' = << ReplicateRun(1) >>
    /\ pc' = "replicate_run"
    /\ UNCHANGED <<p, attempt, result, returns>>
    /\ UNCHANGED <<gateway, caller, abandoned,
                   target, source, backoffs, task_id, elapsed>>

\* the call up to the first await asyncio.wait_for(...)
ReplicateSwapFace ==
    /\ pc = "call"
    /\ providers[p] = Replicate
    /\ Invoke
    /\ IF arg.media_type = "video"
       THEN /\ AdapterReturns(Failure(Replicate,
                    "Replicate provider does not support video face swap"))
            /\ remote' = << >>
            /\ UNCHANGED rep_i
       ELSE /\ rep_i' = 1
            /\ remote' = << ReplicateRun(1) >>
            /\ pc' = "replicate_run"
            /\ UNCHANGED <<p, attempt, result, returns>>
    /\ UNCHANGED <<gateway, caller, abandoned,
                   target, source, backoffs, task_id, elapsed>>

\* the awaited run of sub-model rep_i ends
ReplicateRunDone ==
    /\ pc = "replicate_run"
    /\ \E outcome \in RunOutcomes :
          /\ abandoned' = Abandon(remote, outcome)
          /\ IF outcome = "output"
             THEN /\ AdapterReturns(ReplicateSuccess(rep_i))
                  /\ rep_i' = 0
                  /\ remote' = Answered(remote, outcome)
             ELSE IF rep_i < Len(sorted_models)
                  THEN /\ rep_i' = rep_i + 1
                       /\ remote' = Append(Answered(remote, outcome),
                                           ReplicateRun(rep_i + 1))
                       /\ UNCHANGED <<pc, p, attempt, result, returns>>
                  ELSE /\ AdapterReturns(Failure(Replicate,
                               "All Replicate models failed or timed out"))
                       /\ rep_i' = 0
                       /\ remote' = Answered(remote, outcome)
    /\ UNCHANGED <<gateway, caller, target, source, slept, calls, backoffs,
                   task_id, elapsed>>

(***************************************************************************)
(* PiAPIProvider.swap_face.                                                *)
(***************************************************************************)
\* PiAPIProvider.MODELS[...]["timeout"], and the polling interval
PIAPI_IMAGE_TIMEOUT == 60
PIAPI_VIDEO_TIMEOUT == 120
POLL_INTERVAL == 3
\* longest time one status request takes
MaxPollTime == 1

PIAPI_MODELS ==
    [image |-> [model |-> "Qubico/image-toolkit", task_type |-> "face-swap",
                timeout |-> PIAPI_IMAGE_TIMEOUT],
     video |-> [model |-> "Qubico/video-toolkit", task_type |-> "face-swap",
                timeout |-> PIAPI_VIDEO_TIMEOUT]]

\* mutant: a webhook URL is ignored
TruthyNever(str) == FALSE

\* if webhook_url:
Truthy(str) == str # None /\ str # ""

PiAPIFailure(message, task) ==
    [success |-> FALSE, error |-> message, provider |-> PiAPI,
     task_id |-> task]

PiAPIPending(task) ==
    [success |-> TRUE, task_id |-> task, status |-> "pending",
     message |-> "Task created, webhook will be called when complete",
     provider |-> PiAPI, async |-> TRUE]

PiAPICompleted(task, url) ==
    [success |-> TRUE, result_url |-> url,
     message |-> "Face swap completed via PiAPI",
     provider |-> PiAPI, task_id |-> task]

\* the call up to await run_in_executor(_create_task)
PiAPISwapFace ==
    /\ pc = "call"
    /\ providers[p] = PiAPI
    /\ Invoke
    /\ IF arg.media_type \notin DOMAIN PIAPI_MODELS
       THEN /\ AdapterReturns(Failure(PiAPI, "Unsupported media type"))
            /\ remote' = << >>
       ELSE /\ remote' = << [api |-> "POST /task",
                             model |-> PIAPI_MODELS[arg.media_type].model,
                             webhook |->
                                IF Truthy(calls'[Len(calls')].webhook_url)
                                THEN calls'[Len(calls')].webhook_url
                                ELSE None,
                             answer |-> "awaited"] >>
            /\ pc' = "piapi_create"
            /\ UNCHANGED <<p, attempt, result, returns>>
    /\ UNCHANGED <<gateway, caller, abandoned,
                   target, source, backoffs, adapter>>

\* how task creation ends: an Exception (transport fault, malformed body),
\* the HTTPError raise_for_status raises for an error status, a body whose
\* code is not 200, or the task
CreateOutcomes == {"error", "http_error", "rejected", "created"}

\* the status request of the polling loop
StatusRequest(task) ==
    [api |-> "GET /task", task_id |-> task, answer |-> "awaited"]

\* mutant: the HTTPError of an error status leaves the adapter
PiAPICreateDoneRaising ==
    /\ pc = "piapi_create"
    /\ \E outcome \in CreateOutcomes :
          CASE outcome = "http_error" ->
                  /\ AdapterRaises
                  /\ remote' = Answered(remote, outcome)
                  /\ UNCHANGED <<task_id, elapsed>>
            [] outcome = "error" ->
                  /\ AdapterReturns(Failure(PiAPI, "str(e)"))
                  /\ remote' = Answered(remote, outcome)
                  /\ UNCHANGED <<task_id, elapsed>>
            [] outcome = "rejected" ->
                  /\ AdapterReturns(Failure(PiAPI, "Failed to create task"))
                  /\ remote' = Answered(remote, outcome)
                  /\ UNCHANGED <<task_id, elapsed>>
            [] outcome = "created" ->
                  IF Truthy(calls[Len(calls)].webhook_url)
                  THEN /\ AdapterReturns(PiAPIPending("task-1"))
                       /\ remote' = Answered(remote, outcome)
                       /\ UNCHANGED <<task_id, elapsed>>
                  ELSE /\ task_id' = "task-1"
                       /\ elapsed' = 0
                       /\ pc' = "piapi_poll"
                       /\ remote' = Append(Answered(remote, outcome),
                                           StatusRequest("task-1"))
                       /\ UNCHANGED <<p, attempt, result, returns>>
    /\ UNCHANGED <<gateway, caller, abandoned,
                   target, source, slept, calls, backoffs,
                   rep_i>>

\* the awaited task creation ends; with a webhook the adapter returns, else
\* it enters the polling loop and awaits the first status request
PiAPICreateDone ==
    /\ pc = "piapi_create"
    /\ \E outcome \in CreateOutcomes :
          CASE outcome \in {"error", "http_error"} ->
                  /\ AdapterReturns(Failure(PiAPI, "str(e)"))
                  /\ remote' = Answered(remote, outcome)
                  /\ UNCHANGED <<task_id, elapsed>>
            [] outcome = "rejected" ->
                  /\ AdapterReturns(Failure(PiAPI, "Failed to create task"))
                  /\ remote' = Answered(remote, outcome)
                  /\ UNCHANGED <<task_id, elapsed>>
            [] outcome = "created" ->
                  IF Truthy(calls[Len(calls)].webhook_url)
                  THEN /\ AdapterReturns(PiAPIPending("task-1"))
                       /\ remote' = Answered(remote, outcome)
                       /\ UNCHANGED <<task_id, elapsed>>
                  ELSE /\ task_id' = "task-1"
                       /\ elapsed' = 0
                       /\ IF 0 < PIAPI_MODELS[arg.media_type].timeout
                          THEN /\ pc' = "piapi_poll"
                               /\ remote' = Append(Answered(remote, outcome),
                                                   StatusRequest("task-1"))
                               /\ UNCHANGED <<p, attempt, result, returns>>
                          ELSE /\ AdapterReturns(
                                      PiAPIFailure("Task timeout", "task-1"))
                               /\ remote' = Answered(remote, outcome)
    /\ UNCHANGED <<gateway, caller, abandoned,
                   target, source, slept, calls, backoffs,
                   rep_i>>

\* what a status request answers: an Exception, or the task's status
PollOutcomes == {"error", "completed", "completed_no_url", "failed", "pending"}

\* mutant: the exception of a status request leaves the adapter
PiAPIPollDoneRaising ==
    /\ pc = "piapi_poll"
    /\ \E outcome \in PollOutcomes, d \in 0..MaxPollTime :
          /\ remote' = Answered(remote, outcome)
          /\ CASE outcome = "error" ->
                  /\ AdapterRaises
                  /\ task_id' = None
                  /\ elapsed' = 0
               [] outcome = "completed" ->
                  /\ AdapterReturns(
                         PiAPICompleted(task_id, "https://piapi/out"))
                  /\ task_id' = None
                  /\ elapsed' = 0
               [] outcome = "completed_no_url" ->
                  /\ AdapterReturns(PiAPICompleted(task_id, None))
                  /\ task_id' = None
                  /\ elapsed' = 0
               [] outcome = "failed" ->
                  /\ AdapterReturns(PiAPIFailure("Task failed", task_id))
                  /\ task_id' = None
                  /\ elapsed' = 0
               [] outcome = "pending" ->
                  /\ elapsed' = elapsed + d
                  /\ pc' = "piapi_sleep"
                  /\ UNCHANGED <<p, attempt, result, returns, task_id>>
    /\ UNCHANGED <<gateway, caller, abandoned,
                   target, source, slept, calls, backoffs,
                   rep_i>>

\* the awaited status request ends after d time units; unless the task is
\* finished the adapter sleeps
PiAPIPollDone ==
    /\ pc = "piapi_poll"
    /\ \E outcome \in PollOutcomes, d \in 0..MaxPollTime :
          /\ remote' = Answered(remote, outcome)
          /\ CASE outcome = "error" ->
                  /\ AdapterReturns(Failure(PiAPI, "str(e)"))
                  /\ task_id' = None
                  /\ elapsed' = 0
               [] outcome = "completed" ->
                  /\ AdapterReturns(
                         PiAPICompleted(task_id, "https://piapi/out"))
                  /\ task_id' = None
                  /\ elapsed' = 0
               [] outcome = "completed_no_url" ->
                  /\ AdapterReturns(PiAPICompleted(task_id, None))
                  /\ task_id' = None
                  /\ elapsed' = 0
               [] outcome = "failed" ->
                  /\ AdapterReturns(PiAPIFailure("Task failed", task_id))
                  /\ task_id' = None
                  /\ elapsed' = 0
               [] outcome = "pending" ->
                  /\ elapsed' = elapsed + d
                  /\ pc' = "piapi_sleep"
                  /\ UNCHANGED <<p, attempt, result, returns, task_id>>
    /\ UNCHANGED <<gateway, caller, abandoned,
                   target, source, slept, calls, backoffs,
                   rep_i>>

\* mutant: the budget is tested against the clock read before the sleep
PiAPISleepDoneLate ==
    /\ pc = "piapi_sleep"
    /\ IF elapsed < PIAPI_MODELS[arg.media_type].timeout
       THEN /\ elapsed' = elapsed + POLL_INTERVAL
            /\ pc' = "piapi_poll"
            /\ remote' = Answered(remote, "awaited")
            /\ UNCHANGED <<p, attempt, result, returns, task_id>>
       ELSE /\ AdapterReturns(PiAPIFailure("Task timeout", task_id))
            /\ task_id' = None
            /\ elapsed' = 0
            /\ UNCHANGED remote
    /\ UNCHANGED <<gateway, caller, abandoned,
                   target, source, slept, calls, backoffs,
                   rep_i>>

\* await asyncio.sleep(3) ends, and the loop condition is evaluated again
PiAPISleepDone ==
    /\ pc = "piapi_sleep"
    /\ IF elapsed + POLL_INTERVAL < PIAPI_MODELS[arg.media_type].timeout
       THEN /\ elapsed' = elapsed + POLL_INTERVAL
            /\ pc' = "piapi_poll"
            /\ remote' = Answered(remote, "awaited")
            /\ UNCHANGED <<p, attempt, result, returns, task_id>>
       ELSE /\ AdapterReturns(PiAPIFailure("Task timeout", task_id))
            /\ task_id' = None
            /\ elapsed' = 0
            /\ UNCHANGED remote
    /\ UNCHANGED <<gateway, caller, abandoned,
                   target, source, slept, calls, backoffs,
                   rep_i>>

Next ==
    \/ SwapFaceBegin
    \/ Backoff
    \/ CustomSwapFace
    \/ NanoBananaSwapFace
    \/ NanoBananaRunDone
    \/ ReplicateSwapFace
    \/ ReplicateRunDone
    \/ PiAPISwapFace
    \/ PiAPICreateDone
    \/ PiAPIPollDone
    \/ PiAPISleepDone

Spec == Init /\ [][Next]_vars

\* every awaited operation ends (remote calls are bounded by their timeouts,
\* sleeps are finite) and the event loop resumes the coroutine
FairSpec == Spec /\ WF_vars(Next)

\* the same call over the wider sets of credentials and input strings
InputSpec == InitInputs /\ [][Next]_vars

(***************************************************************************)
(* Cancellation of the task that runs swap_face: asyncio raises            *)
(* CancelledError at the await the call is suspended in.                   *)
(***************************************************************************)
\* the awaits: asyncio.sleep of the retry loop, the adapters' remote calls
\* and the sleep between two status polls
Suspended == {"backoff", "nano_run", "replicate_run", "piapi_create",
              "piapi_poll", "piapi_sleep"}

\* mutant: every exception is caught by except Exception
IsExceptionAny(exc) == TRUE

\* isinstance(exc, Exception): asyncio.CancelledError derives from
\* BaseException, every fault of a remote call from Exception
IsException(exc) == exc # "CancelledError"

\* what the except Exception clause around the await would do with the
\* exception raised there
CancelConsumed ==
    CASE pc = "backoff" ->
            NextAttempt /\ UNCHANGED <<returns, remote, adapter>>
      [] pc = "nano_run" ->
            /\ AdapterReturns(Failure(NanoBanana, "str(e)"))
            /\ UNCHANGED <<remote, adapter>>
      [] pc = "replicate_run" ->
            IF rep_i < Len(sorted_models)
            THEN /\ rep_i' = rep_i + 1
                 /\ remote' = Append(remote, ReplicateRun(rep_i + 1))
                 /\ UNCHANGED <<pc, p, attempt, result, returns, task_id,
                                elapsed>>
            ELSE /\ AdapterReturns(Failure(Replicate,
                         "All Replicate models failed or timed out"))
                 /\ rep_i' = 0
                 /\ UNCHANGED <<remote, task_id, elapsed>>
      [] OTHER ->
            /\ AdapterReturns(Failure(PiAPI, "str(e)"))
            /\ task_id' = None
            /\ elapsed' = 0
            /\ UNCHANGED <<remote, rep_i>>

\* the caller cancels the task while the call is suspended
Cancel ==
    /\ pc \in Suspended
    /\ ~cancelled
    /\ cancelled' = TRUE
    /\ IF IsException("CancelledError")
       THEN CancelConsumed
       ELSE /\ pc' = "cancelled"
            /\ UNCHANGED <<p, attempt, returns, result, remote, adapter>>
    /\ UNCHANGED <<gateway, arg, parked, abandoned, target, source, slept,
                   calls, backoffs>>

NextOrCancel == Next \/ Cancel

CancelSpec == Init /\ [][NextOrCancel]_vars

(***************************************************************************)
(* Runs that asyncio.wait_for gave up on: replicate.run is not stopped, it *)
(* ends later in its executor thread and its output goes to a future that  *)
(* nothing awaits.                                                         *)
(***************************************************************************)
AbandonedRunDone ==
    /\ \E m \in abandoned : abandoned' = abandoned \ {m}
    /\ UNCHANGED <<gateway, caller, locals, pc, slept, calls, returns,
                   backoffs, result, remote, adapter>>

NextOrLate == Next \/ AbandonedRunDone

LateSpec == Init /\ [][NextOrLate]_vars

(***************************************************************************)
(* Two calls of swap_face on one gateway, run by one event loop: a call    *)
(* runs until it awaits, then the loop may resume the other.               *)
(***************************************************************************)
\* the running call's frame: its arguments, locals and histories
Frame ==
    [arg |-> arg, cancelled |-> cancelled, target |-> target,
     source |-> source, pc |-> pc, p |-> p, attempt |-> attempt,
     slept |-> slept, calls |-> calls, returns |-> returns,
     backoffs |-> backoffs, result |-> result, remote |-> remote,
     rep_i |-> rep_i, task_id |-> task_id, elapsed |-> elapsed]

\* mutant: attempt is one counter of the gateway, not a local of the call
SwitchSharedAttempt ==
    /\ parked # NoCall
    /\ pc \in Suspended \cup {"start", "done"}
    /\ parked' = Frame
    /\ arg' = parked.arg
    /\ cancelled' = parked.cancelled
    /\ target' = parked.target
    /\ source' = parked.source
    /\ pc' = parked.pc
    /\ p' = parked.p
    /\ attempt' = attempt
    /\ slept' = parked.slept
    /\ calls' = parked.calls
    /\ returns' = parked.returns
    /\ backoffs' = parked.backoffs
    /\ result' = parked.result
    /\ remote' = parked.remote
    /\ rep_i' = parked.rep_i
    /\ task_id' = parked.task_id
    /\ elapsed' = parked.elapsed
    /\ UNCHANGED <<gateway, abandoned>>

\* the running call is suspended (or has not begun, or has returned) and the
\* event loop resumes the other call
Switch ==
    /\ parked # NoCall
    /\ pc \in Suspended \cup {"start", "done"}
    /\ parked' = Frame
    /\ arg' = parked.arg
    /\ cancelled' = parked.cancelled
    /\ target' = parked.target
    /\ source' = parked.source
    /\ pc' = parked.pc
    /\ p' = parked.p
    /\ attempt' = parked.attempt
    /\ slept' = parked.slept
    /\ calls' = parked.calls
    /\ returns' = parked.returns
    /\ backoffs' = parked.backoffs
    /\ result' = parked.result
    /\ remote' = parked.remote
    /\ rep_i' = parked.rep_i
    /\ task_id' = parked.task_id
    /\ elapsed' = parked.elapsed
    /\ UNCHANGED <<gateway, abandoned>>

\* the arguments of the two calls: one polls, the other has a webhook
FirstArgs == [target : {UrlInput}, source : {RawPngInput},
              media_type : {"image"}, retry_count : 0..MaxRetry,
              webhook_url : {None}]
SecondArgs == [target : {RawPngInput}, source : {UrlInput},
               media_type : MediaTypes, retry_count : {1},
               webhook_url : {"https://caller/hook"}]

InitTwo ==
    InitWith(Credentials, {<<Custom>>}, FirstArgs,
             { NewCall(a) : a \in SecondArgs })

NextOrSwitch == Next \/ Switch

TwoSpec == InitTwo /\ [][NextOrSwitch]_vars

(***************************************************************************)
(* Properties.                                                             *)
(***************************************************************************)
\* the inputs of the model that Python rejects for a media kind
\* (neither URL, nor data URI of the kind, nor decodable base-64)
RejectedFor(kind) ==
    IF kind = "video"
    THEN {BadInput, NonAsciiInput}
    ELSE {BadInput, NonAsciiInput, Mp4UriInput}

ValidRequest ==
    /\ arg.target \notin RejectedFor(arg.media_type)
    /\ arg.source \notin RejectedFor("image")

Raised(i) == returns[i].kind = "raise"
ReturnedFailure(i) ==
    returns[i].kind = "return" /\ returns[i].value.success = FALSE
ReturnedSuccess(i) ==
    returns[i].kind = "return" /\ returns[i].value.success = TRUE

CallsOf(k) == { i \in DOMAIN calls : calls[i].p = k }

RECURSIVE TotalDelay(_)
TotalDelay(seq) ==
    IF seq = << >> THEN 0 ELSE Head(seq).delay + TotalDelay(Tail(seq))

\* C1: on a valid request and a chain of N >= 1 providers, when every adapter
\* invocation raised, the finished call made exactly N * (retry_count + 1)
\* invocations and returned success = false with error_code
\* ALL_PROVIDERS_FAILED.
C1_AllFaultsAttempts ==
    (/\ pc = "done"
     /\ ValidRequest
     /\ providers # << >>
     /\ \A i \in DOMAIN returns : Raised(i))
    => /\ Len(calls) = Len(providers) * (arg.retry_count + 1)
       /\ Len(returns) = Len(calls)
       /\ result.success = FALSE
       /\ "error_code" \in DOMAIN result
       /\ result.error_code = "ALL_PROVIDERS_FAILED"

C1_Witness ==
    /\ pc = "done"
    /\ Len(providers) = 3
    /\ arg.retry_count = 2
    /\ Len(calls) = 9
    /\ \A i \in DOMAIN returns : Raised(i)

\* C2: after an invocation returned success = false the call is not in a
\* backoff sleep, and the next invocation, if any, is attempt 0 of the next
\* provider of the chain, fired without a wait; the provider that reported
\* the failure is never invoked again.
C2_FailureStopsRetries ==
    \A i \in DOMAIN returns :
        ReturnedFailure(i) =>
            /\ (i = Len(calls) => pc \in {"call", "done"})
            /\ (i < Len(calls) =>
                    /\ calls[i + 1].p = calls[i].p + 1
                    /\ calls[i + 1].attempt = 0
                    /\ calls[i + 1].wait = 0)
            /\ \A j \in DOMAIN calls : j > i => calls[j].p # calls[i].p
            /\ (calls[i].attempt = 0 => Cardinality(CallsOf(calls[i].p)) = 1)

C2_Witness ==
    /\ arg.retry_count = 2
    /\ Len(calls) = 2
    /\ ReturnedFailure(1)
    /\ calls[1].attempt = 0
    /\ calls[2].p = 2

\* C3: an invocation that returned success = true is the last one: the call
\* is finished, its result is exactly that result, no invocation and no
\* backoff follows; when the first provider succeeds on its second attempt
\* after one fault, only that provider was invoked and exactly one backoff,
\* of 2 time units, was awaited.
C3_SuccessEndsCall ==
    /\ \A i \in DOMAIN returns :
          ReturnedSuccess(i) =>
              /\ pc = "done"
              /\ result = returns[i].value
              /\ i = Len(returns)
              /\ i = Len(calls)
    /\ pc = "done" =>
          Len(backoffs) =
              Cardinality({ i \in DOMAIN calls : calls[i].attempt > 0 })
    /\ (Len(returns) = 2 /\ Raised(1) /\ ReturnedSuccess(2)
            /\ calls[2].p = 1) =>
          /\ \A i \in DOMAIN calls : calls[i].p = 1
          /\ Len(backoffs) = 1
          /\ backoffs[1].delay = 2

C3_Witness ==
    /\ pc = "done"
    /\ Len(providers) >= 2
    /\ Len(returns) = 2
    /\ Raised(1)
    /\ ReturnedSuccess(2)
    /\ calls[2].p = 1
    /\ result = returns[2].value

\* C4: attempt 0 of a provider is fired with no preceding wait and attempt
\* n >= 1 after a wait of exactly 2^n; the first invocation of every provider
\* is attempt 0; the backoff awaited by one call totals at most
\* N * (2^(retry_count + 1) - 2).
C4_Backoff ==
    /\ \A i \in DOMAIN calls :
          /\ calls[i].wait = IF calls[i].attempt = 0 THEN 0
                             ELSE 2 ^ calls[i].attempt
          /\ calls[i].attempt \in 0..arg.retry_count
          /\ (i = 1 \/ calls[i].p # calls[i - 1].p) => calls[i].attempt = 0
    /\ \A i \in DOMAIN backoffs :
          backoffs[i].attempt >= 1 /\ backoffs[i].delay = 2 ^ backoffs[i].attempt
    /\ (pc = "call" /\ attempt > 0) => slept = 2 ^ attempt
    /\ TotalDelay(backoffs)
          <= Len(providers) * (2 ^ (arg.retry_count + 1) - 2)

C4_Witness ==
    /\ pc = "done"
    /\ Len(providers) = 2
    /\ arg.retry_count = 2
    /\ Len(calls) = 6
    /\ calls[3].wait = 4
    /\ calls[4].attempt = 0
    /\ calls[6].wait = 4
    /\ TotalDelay(backoffs) = 12

\* C5: at most one invocation is in flight; invocations follow the chain:
\* the first is provider 1 attempt 0, and each next one is either the next
\* attempt of the same provider, after a fault, or attempt 0 of the next
\* provider, after a reported failure or a fault on attempt retry_count; no
\* provider is returned to, and none is invoked more than retry_count + 1
\* times.
C5_ChainOrder ==
    /\ Len(calls) - Len(returns) \in {0, 1}
    /\ pc \in {"nano_run", "replicate_run", "piapi_create", "piapi_poll",
               "piapi_sleep"} <=> Len(calls) = Len(returns) + 1
    /\ \A i \in DOMAIN calls :
          /\ calls[i].p \in DOMAIN providers
          /\ calls[i].provider = providers[calls[i].p]
          /\ i = 1 => calls[i].p = 1 /\ calls[i].attempt = 0
          /\ \A j \in DOMAIN calls : i < j => calls[i].p <= calls[j].p
          /\ i < Len(calls) =>
                \/ /\ calls[i + 1].p = calls[i].p
                   /\ calls[i + 1].attempt = calls[i].attempt + 1
                   /\ Raised(i)
                \/ /\ calls[i + 1].p = calls[i].p + 1
                   /\ calls[i + 1].attempt = 0
                   /\ \/ ReturnedFailure(i)
                      \/ /\ Raised(i)
                         /\ calls[i].attempt = arg.retry_count
                         /\ Cardinality(CallsOf(calls[i].p))
                                = arg.retry_count + 1
                         /\ \A k \in CallsOf(calls[i].p) : Raised(k)
    /\ \A k \in DOMAIN providers :
          Cardinality(CallsOf(k)) <= arg.retry_count + 1

C5_Witness ==
    /\ pc = "done"
    /\ Len(providers) = 3
    /\ arg.retry_count = 1
    /\ Len(calls) = 4
    /\ Raised(1) /\ Raised(2) /\ ReturnedFailure(3) /\ ReturnedSuccess(4)

\* C6 as claimed: the result returned for an empty chain carries an error
\* code of its own.
C6_NoProvidersHasCode ==
    (pc = "done" /\ ValidRequest /\ providers = << >>)
    => /\ "error_code" \in DOMAIN result
       /\ result.error_code # "ALL_PROVIDERS_FAILED"

\* C6 as amended: the result returned for an empty chain carries no
\* error_code; it is success = false with the error message "No face swap
\* providers configured (missing API keys)", a message that no validation
\* failure and no all-providers-failed result carries, so the message alone
\* tells the three apart.
C6_NoProvidersMessage ==
    pc = "done" =>
        /\ (ValidRequest /\ providers = << >>) =>
              /\ DOMAIN result = {"success", "error"}
              /\ result.success = FALSE
              /\ result.error
                    = "No face swap providers configured (missing API keys)"
        /\ ~(ValidRequest /\ providers = << >>) =>
              ("error" \in DOMAIN result =>
                  result.error
                    # "No face swap providers configured (missing API keys)")

C6_Witness ==
    /\ pc = "done"
    /\ ValidRequest
    /\ providers = << >>
    /\ "error_code" \notin DOMAIN result

\* C7: a request whose target is rejected for the request's media kind, or
\* whose source is rejected as an image, or that meets an empty chain, ends
\* with success = false without any adapter invocation, remote call or
\* backoff; a rejected target is reported for the request's kind and a
\* rejected source as an image.
C7_ShortCircuit ==
    /\ (~ValidRequest \/ providers = << >>) =>
          /\ calls = << >> /\ returns = << >>
          /\ backoffs = << >>
          /\ remote = << >>
          /\ pc \in {"start", "done"}
          /\ pc = "done" => result.success = FALSE
    /\ (pc = "done" /\ arg.target \in RejectedFor(arg.media_type)) =>
          result = [success |-> FALSE,
                    error |-> IF arg.media_type = "video"
                              THEN "Invalid input: must be URL or base64 encoded video"
                              ELSE "Invalid input: must be URL or base64 encoded image"]
    /\ (pc = "done" /\ arg.target \notin RejectedFor(arg.media_type)
            /\ arg.source \in RejectedFor("image")) =>
          result = [success |-> FALSE,
                    error |-> "Invalid input: must be URL or base64 encoded image"]

C7_Witness ==
    /\ pc = "done"
    /\ providers # << >>
    /\ arg.media_type = "video"
    /\ arg.target = Mp4UriInput
    /\ arg.source = Mp4UriInput
    /\ result.success = FALSE
    /\ calls = << >>

\* C8: on a valid request and a non-empty chain, a finished call in which no
\* invocation returned success = true returned success = false with
\* error_code ALL_PROVIDERS_FAILED, and the result of no failed invocation
\* is what the call returned.
C8_AggregateFailure ==
    (pc = "done" /\ ValidRequest /\ providers # << >>) =>
        /\ (\A i \in DOMAIN returns : ~ReturnedSuccess(i)) =>
              /\ result.success = FALSE
              /\ DOMAIN result = {"success", "error", "error_code"}
              /\ result.error_code = "ALL_PROVIDERS_FAILED"
              /\ result.error = "All face swap providers failed after retries"
        /\ \A i \in DOMAIN returns :
              ReturnedFailure(i) => result # returns[i].value

C8_Witness ==
    /\ pc = "done"
    /\ Len(providers) = 3
    /\ Len(returns) = 3
    /\ \A i \in DOMAIN returns : ReturnedFailure(i)
    /\ returns[1].value.error = "Nano-Banana timeout (60s)"
    /\ returns[2].value.error = "Task timeout"
    /\ returns[3].value.error = "All Replicate models failed or timed out"
    /\ result.error_code = "ALL_PROVIDERS_FAILED"

\* C9: every call ends, and ends by returning a dictionary whose success
\* field is a boolean; an exception raised by an adapter never leaves
\* swap_face: the call goes on with the next attempt or provider.
C9_AlwaysReturnsResult ==
    /\ [](pc \in {"start", "call", "backoff", "nano_run", "replicate_run",
                  "piapi_create", "piapi_poll", "piapi_sleep", "done"})
    /\ [](pc = "done" =>
            /\ result # Running
            /\ "success" \in DOMAIN result
            /\ result.success \in BOOLEAN)
    /\ [](pc # "done" => result = Running)
    /\ <>(pc = "done")

C9_Witness ==
    /\ pc = "done"
    /\ Len(returns) >= 2
    /\ Raised(1)
    /\ "success" \in DOMAIN result
    /\ result.success \in BOOLEAN

\* C10: every invocation of the PiAPI adapter is handed the caller's webhook
\* URL and every invocation of another adapter is handed None; a result
\* with async = true or status "pending" is returned by PiAPI only, and only
\* when the caller gave a webhook URL.
C10_WebhookOnlyPiAPI ==
    /\ \A i \in DOMAIN calls :
          calls[i].webhook_url =
              IF calls[i].provider = "PiAPI" THEN arg.webhook_url ELSE None
    /\ \A i \in DOMAIN returns :
          (/\ returns[i].kind = "return"
           /\ \/ "async" \in DOMAIN returns[i].value
              \/ "status" \in DOMAIN returns[i].value)
          => /\ calls[i].provider = "PiAPI"
             /\ arg.webhook_url # None
    /\ \A i \in DOMAIN remote :
          (remote[i].api = "POST /task" /\ remote[i].webhook # None)
          => calls[Len(calls)].provider = "PiAPI"

C10_Witness ==
    /\ pc = "done"
    /\ arg.webhook_url # None
    /\ Len(calls) = 2
    /\ calls[1].provider = "Nano-Banana"
    /\ calls[1].webhook_url = None
    /\ calls[2].provider = "PiAPI"
    /\ calls[2].webhook_url = arg.webhook_url
    /\ "async" \in DOMAIN result

\* C11: an invocation of the Nano-Banana or the Replicate adapter for a video
\* request returns at once a failure whose error names video as unsupported,
\* and no remote call is issued for it.
C11_VideoRejectedLocally ==
    /\ \A i \in DOMAIN returns :
          (calls[i].media_type = "video"
             /\ calls[i].provider \in {NanoBanana, Replicate})
          => /\ ReturnedFailure(i)
             /\ returns[i].value.error =
                   IF calls[i].provider = NanoBanana
                   THEN "Nano-Banana does not support video face swap"
                   ELSE "Replicate provider does not support video face swap"
    /\ (calls # << >>
          /\ calls[Len(calls)].media_type = "video"
          /\ calls[Len(calls)].provider \in {NanoBanana, Replicate})
       => /\ remote = << >>
          /\ Len(returns) = Len(calls)
          /\ pc \notin {"nano_run", "replicate_run"}

C11_Witness ==
    /\ arg.media_type = "video"
    /\ providers = <<NanoBanana, PiAPI, Replicate>>
    /\ pc = "done"
    /\ Len(returns) = 3
    /\ ReturnedFailure(1) /\ ReturnedFailure(3)
    /\ calls[1].provider = NanoBanana /\ calls[3].provider = Replicate
    /\ remote = << >>

\* C12: a target or source beginning with http:// or https:// is accepted
\* by validation for either media kind and left as it is by normalisation:
\* the locals after normalisation and the arguments of every adapter
\* invocation hold the URL exactly as the caller supplied it.
C12_UrlPassThrough ==
    LET Urls == {UrlInput, HttpUrlInput}
        Invalid == {"Invalid input: must be URL or base64 encoded video",
                    "Invalid input: must be URL or base64 encoded image"}
    IN  /\ (pc # "start" /\ arg.target \in Urls /\ arg.source \in Urls)
           => /\ "error" \in DOMAIN result => result.error \notin Invalid
              /\ pc = "done" => result # Running
        /\ (pc # "start" /\ arg.target \in Urls /\ arg.media_type = "video")
           => ("error" \in DOMAIN result
                 => result.error
                      # "Invalid input: must be URL or base64 encoded video")
        /\ arg.target \in Urls => target = arg.target
        /\ arg.source \in Urls => source = arg.source
        /\ \A i \in DOMAIN calls :
              /\ arg.target \in Urls => calls[i].target = arg.target
              /\ arg.source \in Urls => calls[i].source = arg.source

C12_Witness ==
    /\ arg.target = HttpUrlInput
    /\ arg.source = UrlInput
    /\ arg.media_type = "video"
    /\ Len(calls) >= 2
    /\ calls[2].target = <<"h","t","t","p",":","/","/","a">>
    /\ calls[2].source = <<"h","t","t","p","s",":","/","/","a">>

\* the format tag _normalize_base64 gives a raw payload, where other is the
\* tag of a container that is recognised but is none of the five
C13_Tag(x, other) ==
    CASE x = RawPngInput -> PNG
      [] x = RawJpegInput -> JPEG
      [] x = RawGifInput -> GIF
      [] x = RawWebpInput -> WEBP
      [] x = RawBmpInput -> BMP
      [] x = RawTiffInput -> other
      [] OTHER -> JPEG

C13_Statement(other) ==
    LET Raw == WideInputs \ ({UrlInput, HttpUrlInput, UpperPngUriInput}
                                \cup DataUriInputs)
        \* the raw strings base64.b64decode accepts
        Decodable == {RawPngInput, RawJpegInput, RawGifInput, RawBmpInput,
                      RawWebpInput, RawTiffInput, RawNoImageInput, EmptyInput}
        Invalid == {"Invalid input: must be URL or base64 encoded video",
                    "Invalid input: must be URL or base64 encoded image"}
        Tagged(x) ==
            DATA \o IMAGE \o SLASH \o C13_Tag(x, other) \o BASE64_ \o x
        Accepted == /\ "error" \in DOMAIN result => result.error \notin Invalid
                    /\ pc = "done" => result # Running
        Rejected(kind) ==
            /\ pc = "done"
            /\ calls = << >>
            /\ result =
                 [success |-> FALSE,
                  error |-> IF kind = "video"
                            THEN "Invalid input: must be URL or base64 encoded video"
                            ELSE "Invalid input: must be URL or base64 encoded image"]
    IN  /\ (pc # "start" /\ arg.target \in Raw /\ arg.source = UrlInput)
           => IF arg.target \in Decodable
              THEN /\ Accepted
                   /\ target = Tagged(arg.target)
                   /\ \A i \in DOMAIN calls :
                         calls[i].target = Tagged(arg.target)
              ELSE Rejected(arg.media_type) /\ target = arg.target
        /\ (pc # "start" /\ arg.source \in Raw /\ arg.target = UrlInput)
           => IF arg.source \in Decodable
              THEN /\ Accepted
                   /\ source = Tagged(arg.source)
                   /\ \A i \in DOMAIN calls :
                         calls[i].source = Tagged(arg.source)
              ELSE Rejected("image") /\ source = arg.source

\* C13 as claimed: a raw string (no URL, no tagged data URI) passes
\* validation exactly when it decodes as base64, else the call fails with
\* the error naming the expected kind; an accepted payload whose bytes are a
\* recognisable image container is tagged with the sniffed format, a TIFF
\* container with tiff, and one that is no image with jpeg.
C13_SniffedFormatTag == C13_Statement(<<"t","i","f","f">>)

\* C13 as amended: as above, but the sniffed format is the tag only when it
\* is jpeg, png, gif, webp or bmp; a payload recognised as any other
\* container (TIFF) is tagged jpeg, like a payload that is no image.
C13_MappedFormatTag == C13_Statement(JPEG)

C13_Witness ==
    /\ arg.target = RawTiffInput
    /\ arg.source = UrlInput
    /\ calls # << >>
    /\ calls[1].target =
          DATA \o IMAGE \o SLASH \o JPEG \o BASE64_ \o RawTiffInput
    /\ ImageOpenFormat(b64decode(arg.target).bytes) = "TIFF"

\* C14: every result an adapter returned, and the result of swap_face, is of
\* exactly one of three shapes: it holds a result URL, or it is asynchronous
\* with a task id, or it is a failure with an error message; a success holds
\* a result_url that is a string, or a task id with status pending and
\* async, and a failure holds an error string.
C14_ResultShape ==
    LET HasUrl(r) == "result_url" \in DOMAIN r /\ r.result_url # None
        HasTask(r) == "task_id" \in DOMAIN r /\ r.task_id # None
        IsAsync(r) == "async" \in DOMAIN r /\ r.async = TRUE /\ HasTask(r)
        IsFailure(r) ==
            r.success = FALSE /\ "error" \in DOMAIN r /\ r.error # None
        Shapes(r) ==
            (IF HasUrl(r) THEN 1 ELSE 0) + (IF IsAsync(r) THEN 1 ELSE 0)
              + (IF IsFailure(r) THEN 1 ELSE 0)
        WellFormed(r) ==
            /\ Shapes(r) = 1
            /\ r.success = TRUE
               => \/ HasUrl(r)
                  \/ /\ IsAsync(r)
                     /\ "status" \in DOMAIN r
                     /\ r.status = "pending"
            /\ r.success = FALSE => IsFailure(r)
    IN  /\ \A i \in DOMAIN returns :
              returns[i].kind = "return" => WellFormed(returns[i].value)
        /\ result # Running => WellFormed(result)

\* C15: the chain __init__ builds is fixed by which credentials are present
\* (not None and not empty): Nano-Banana, PiAPI, Replicate with both;
\* Nano-Banana, Replicate with the Replicate token only; PiAPI with the
\* PiAPI key only; empty with neither. Construction gives a chain for every
\* pair of credentials, and only a chain of other provider implementations,
\* installed where no credential is present, differs from it.
C15_ChainFromCredentials ==
    LET Present(c) == c # None /\ c # ""
        Expected ==
            IF Present(replicate_token) /\ Present(piapi_key)
            THEN <<NanoBanana, PiAPI, Replicate>>
            ELSE IF Present(replicate_token) THEN <<NanoBanana, Replicate>>
            ELSE IF Present(piapi_key) THEN <<PiAPI>>
            ELSE << >>
    IN  /\ providers = Expected
           \/ /\ providers \in CustomChains
              /\ replicate_token = None
              /\ piapi_key = None
        /\ \A i \in DOMAIN calls : calls[i].provider = providers[calls[i].p]

C15_Witness ==
    /\ replicate_token = "secret"
    /\ piapi_key = ""
    /\ providers = <<NanoBanana, Replicate>>
    /\ Len(calls) = 2
    /\ calls[2].provider = Replicate

\* C18: a PiAPI invocation that was handed a webhook URL never polls and
\* never waits between polls; when its task creation succeeds it returns at
\* once the result with success, async, status pending and the task id, and
\* swap_face returns that result with no later provider invoked.
C18_WebhookReturnsPending ==
    (/\ calls # << >>
     /\ calls[Len(calls)].provider = PiAPI
     /\ calls[Len(calls)].webhook_url = "https://caller/hook")
    => /\ pc \notin {"piapi_poll", "piapi_sleep"}
       /\ \A i \in DOMAIN remote : remote[i].api # "GET /task"
       /\ (remote # << >> /\ remote[1].answer = "created")
          => /\ Len(returns) = Len(calls)
             /\ returns[Len(calls)] =
                   [kind |-> "return",
                    value |->
                      [success |-> TRUE, task_id |-> "task-1",
                       status |-> "pending",
                       message |->
                         "Task created, webhook will be called when complete",
                       provider |-> PiAPI, async |-> TRUE]]
             /\ pc = "done"
             /\ result = returns[Len(calls)].value
             /\ task_id = None
             /\ elapsed = 0

C18_Witness ==
    /\ providers = <<NanoBanana, PiAPI, Replicate>>
    /\ arg.webhook_url = "https://caller/hook"
    /\ pc = "done"
    /\ Len(calls) = 2
    /\ remote = << [api |-> "POST /task", model |-> "Qubico/image-toolkit",
                    webhook |-> "https://caller/hook",
                    answer |-> "created"] >>
    /\ "async" \in DOMAIN result
    /\ result.async = TRUE
    /\ result.status = "pending"

\* the call is in the polling loop of PiAPIProvider.swap_face
Polling == pc \in {"piapi_poll", "piapi_sleep"}

\* the polling budget of the request's media kind
Budget == IF arg.media_type = "video" THEN 120 ELSE 60

C19_Inv ==
    /\ Polling
       => /\ calls[Len(calls)].provider = PiAPI
          /\ calls[Len(calls)].webhook_url = None
          /\ Len(returns) = Len(calls) - 1
          /\ Len(remote) = 2
          /\ remote[1].answer = "created"
          /\ remote[2].api = "GET /task"
          /\ task_id = "task-1"
    /\ pc = "piapi_poll" => elapsed < Budget
    /\ (/\ calls # << >>
        /\ calls[Len(calls)].provider = PiAPI
        /\ Len(remote) = 2
        /\ ~Polling)
       => /\ Len(returns) = Len(calls)
          /\ LET res == returns[Len(calls)].value
             IN  CASE remote[2].answer = "completed" ->
                        /\ res = [success |-> TRUE,
                                  result_url |-> "https://piapi/out",
                                  message |-> "Face swap completed via PiAPI",
                                  provider |-> PiAPI, task_id |-> "task-1"]
                        /\ pc = "done"
                        /\ result = res
                   [] remote[2].answer = "completed_no_url" ->
                        res.success = TRUE /\ pc = "done" /\ result = res
                   [] remote[2].answer = "failed" ->
                        res = [success |-> FALSE, error |-> "Task failed",
                               provider |-> PiAPI, task_id |-> "task-1"]
                   [] remote[2].answer = "pending" ->
                        res = [success |-> FALSE, error |-> "Task timeout",
                               provider |-> PiAPI, task_id |-> "task-1"]
                   [] remote[2].answer = "error" ->
                        res.success = FALSE /\ res.provider = PiAPI
                   [] OTHER -> FALSE

C19_Step ==
    /\ pc' = "piapi_poll" => pc \in {"piapi_create", "piapi_sleep"}
    /\ pc = "piapi_sleep"
       => IF elapsed + 3 < Budget
          THEN pc' = "piapi_poll" /\ elapsed' = elapsed + 3
          ELSE /\ ~Polling'
               /\ Len(returns') = Len(returns) + 1
               /\ remote' = remote
               /\ remote[2].answer = "pending"
    /\ pc = "piapi_poll"
       => \/ /\ pc' = "piapi_sleep"
             /\ remote'[2].answer = "pending"
             /\ elapsed' >= elapsed
             /\ returns' = returns
          \/ /\ ~Polling'
             /\ Len(returns') = Len(returns) + 1
             /\ remote'[2].answer \notin {"pending", "awaited"}

C20_CreationRefused ==
    /\ (/\ calls # << >>
        /\ calls[Len(calls)].provider = PiAPI
        /\ remote # << >>
        /\ remote[1].answer \in {"http_error", "rejected"})
       => /\ Len(remote) = 1
          /\ pc \notin {"piapi_create", "piapi_poll", "piapi_sleep", "backoff"}
          /\ Len(returns) = Len(calls)
          /\ ReturnedFailure(Len(calls))
          /\ returns[Len(calls)].value =
                [success |-> FALSE,
                 error |-> IF remote[1].answer = "rejected"
                           THEN "Failed to create task" ELSE "str(e)",
                 provider |-> PiAPI]
          /\ IF calls[Len(calls)].p < Len(providers)
             THEN /\ pc = "call"
                  /\ p = calls[Len(calls)].p + 1
                  /\ attempt = 0
                  /\ result = Running
             ELSE /\ pc = "done"
                  /\ result.success = FALSE
                  /\ result.error_code = "ALL_PROVIDERS_FAILED"
    /\ \A i \in DOMAIN calls :
          calls[i].provider = PiAPI
          => /\ calls[i].attempt = 0
             /\ \A j \in DOMAIN calls : calls[j].provider = PiAPI => j = i
             /\ (i < Len(calls) /\ ReturnedFailure(i))
                => /\ calls[i + 1].p = calls[i].p + 1
                   /\ calls[i + 1].attempt = 0
                   /\ calls[i + 1].wait = 0

C20_Witness ==
    /\ providers = <<NanoBanana, PiAPI, Replicate>>
    /\ arg.retry_count = 2
    /\ Len(calls) = 2
    /\ remote # << >>
    /\ remote[1].api = "POST /task"
    /\ remote[1].answer = "http_error"
    /\ ReturnedFailure(2)
    /\ pc = "call"
    /\ p = 3
    /\ backoffs = << >>

\* C16: once the caller has cancelled a call suspended in a provider call,
\* a backoff wait or the polling wait, the call has left swap_face by the
\* CancelledError, without a result and without the cancellation being
\* recorded as an adapter's fault or failure, and it stays so: no adapter
\* invocation, backoff, remote call or status poll is started afterwards.
C16_CancellationPropagates ==
    /\ [](cancelled => pc = "cancelled" /\ result = Running)
    /\ [][cancelled' => UNCHANGED <<calls, returns, backoffs, remote, p,
                                    attempt, result, rep_i, task_id,
                                    elapsed>>]_vars
    /\ [][(~cancelled /\ cancelled') => pc \in Suspended]_vars

C16_Witness ==
    /\ cancelled
    /\ pc = "cancelled"
    /\ Len(remote) = 2
    /\ remote[2] = [api |-> "GET /task", task_id |-> "task-1",
                    answer |-> "pending"]
    /\ Len(returns) = Len(calls) - 1
    /\ result = Running

\* what a call that runs alone shows in its frame c: every invocation, the
\* position in the loops and the result are fixed by the call's arguments,
\* the chain and how the invocations before ended
Solo(c) ==
    LET n == Len(c.calls)
        r == c.arg.retry_count
        Norm(x) == IF x = UrlInput THEN x
                   ELSE DATA \o IMAGE \o SLASH \o PNG \o BASE64_ \o x
        InFlight == c.pc \in {"nano_run", "replicate_run", "piapi_create",
                              "piapi_poll", "piapi_sleep"}
        Last(i) == c.calls[i].p = Len(providers)
        \* where the loops stand after invocation i ended
        After(i) ==
            IF c.returns[i].kind = "raise" /\ c.calls[i].attempt < r
            THEN [p |-> c.calls[i].p, attempt |-> c.calls[i].attempt + 1,
                  end |-> FALSE]
            ELSE IF c.returns[i].kind = "return"
                    /\ c.returns[i].value.success
                 THEN [p |-> c.calls[i].p, attempt |-> c.calls[i].attempt,
                       end |-> TRUE]
                 ELSE [p |-> c.calls[i].p + 1, attempt |-> 0,
                       end |-> Last(i)]
    IN  /\ Len(c.returns) = IF InFlight THEN n - 1 ELSE n
        /\ \A i \in 1..n :
              /\ c.calls[i].provider = providers[c.calls[i].p]
              /\ c.calls[i].target = Norm(c.arg.target)
              /\ c.calls[i].source = Norm(c.arg.source)
              /\ c.calls[i].media_type = c.arg.media_type
              /\ c.calls[i].webhook_url =
                    IF c.calls[i].provider = PiAPI
                    THEN c.arg.webhook_url ELSE None
              /\ c.calls[i].wait = IF c.calls[i].attempt = 0 THEN 0
                                   ELSE 2 ^ c.calls[i].attempt
              /\ IF i = 1
                 THEN c.calls[i].p = 1 /\ c.calls[i].attempt = 0
                 ELSE /\ ~After(i - 1).end
                      /\ c.calls[i].p = After(i - 1).p
                      /\ c.calls[i].attempt = After(i - 1).attempt
        /\ CASE c.pc = "start" -> n = 0 /\ c.result = Running
             [] c.pc = "done" ->
                  IF n = 0
                  THEN providers = << >> /\ c.result = NoProvidersResult
                  ELSE /\ After(n).end
                       /\ c.result =
                             IF c.returns[n].kind = "return"
                                /\ c.returns[n].value.success
                             THEN c.returns[n].value
                             ELSE AllProvidersFailedResult
             [] InFlight ->
                  /\ c.p = c.calls[n].p
                  /\ c.attempt = c.calls[n].attempt
                  /\ c.result = Running
             [] OTHER ->
                  /\ c.pc \in {"call", "backoff"}
                  /\ c.result = Running
                  /\ IF n = 0 THEN c.p = 1 /\ c.attempt = 0
                     ELSE /\ ~After(n).end
                          /\ c.p = After(n).p
                          /\ c.attempt = After(n).attempt

\* C17: with two calls interleaved on one gateway, no step changes the
\* gateway's credentials or provider chain; a step of the running call
\* leaves the other call's frame as it is and a switch of the event loop
\* only exchanges the two frames; and each call's provider index, attempt,
\* invocations and result are those of the call running alone with the
\* same answers of the providers.
C17_Independent ==
    /\ [](Solo(Frame) /\ Solo(parked))
    /\ [][UNCHANGED gateway]_vars
    /\ [][parked' = parked \/ (parked' = Frame /\ Frame' = parked)]_vars

C17_Witness ==
    /\ providers = <<NanoBanana, PiAPI, Replicate>>
    /\ parked # NoCall
    /\ parked.pc = "piapi_sleep"
    /\ parked.elapsed >= 6
    /\ Len(parked.calls) = 2
    /\ arg.webhook_url = "https://caller/hook"
    /\ pc = "piapi_create"
    /\ Len(calls) = 2
    /\ returns[1].value.success = FALSE

\* C21: for an image request the Replicate adapter runs
\* easel/advanced-face-swap first and omniedgeio/face-swap second, each at
\* most once; a sub-model is run only after every one before it timed out,
\* raised or gave no output; the first output is returned at once as the
\* success tagged with that sub-model's name; after the last sub-model's
\* failure the adapter returns the one aggregate failure; it never raises.
C21_SubModelOrder ==
    (/\ calls # << >>
     /\ calls[Len(calls)].provider = Replicate
     /\ calls[Len(calls)].media_type = "image")
    => LET k == Len(remote)
           Failed == {"empty", "timeout", "error"}
       IN  /\ k \in 1..2
           /\ remote[1].model = "easel/advanced-face-swap"
           /\ remote[1].timeout = 90
           /\ k = 2 => /\ remote[2].model = "omniedgeio/face-swap"
                       /\ remote[2].timeout = 60
           /\ \A i \in 1..(k - 1) : remote[i].answer \in Failed
           /\ IF pc = "replicate_run"
              THEN /\ remote[k].answer = "awaited"
                   /\ rep_i = k
                   /\ Len(returns) = Len(calls) - 1
              ELSE /\ Len(returns) = Len(calls)
                   /\ returns[Len(calls)].kind = "return"
                   /\ IF remote[k].answer = "output"
                      THEN /\ returns[Len(calls)].value =
                                [success |-> TRUE,
                                 result_url |-> "https://replicate/out",
                                 message |-> "Face swap completed via model",
                                 provider |-> Replicate,
                                 model |-> remote[k].model]
                           /\ pc = "done"
                           /\ result = returns[Len(calls)].value
                      ELSE /\ k = 2
                           /\ remote[k].answer \in Failed
                           /\ returns[Len(calls)].value =
                                [success |-> FALSE,
                                 error |->
                                   "All Replicate models failed or timed out",
                                 provider |-> Replicate]

C21_Witness ==
    /\ calls # << >>
    /\ calls[Len(calls)].provider = Replicate
    /\ Len(remote) = 2
    /\ remote[1].answer = "timeout"
    /\ remote[2].answer = "output"
    /\ pc = "done"
    /\ result.success = TRUE
    /\ result.model = "omniedgeio/face-swap"

C22_Inv ==
    /\ (/\ calls # << >>
        /\ calls[Len(calls)].provider = NanoBanana
        /\ remote # << >>
        /\ remote[1].answer = "timeout")
       => /\ Len(returns) = Len(calls)
          /\ returns[Len(calls)] =
                [kind |-> "return",
                 value |-> [success |-> FALSE,
                            error |-> "Nano-Banana timeout (60s)",
                            provider |-> NanoBanana]]
          /\ IF calls[Len(calls)].p < Len(providers)
             THEN /\ pc = "call"
                  /\ p = calls[Len(calls)].p + 1
                  /\ attempt = 0
                  /\ result = Running
             ELSE /\ pc = "done"
                  /\ result =
                        [success |-> FALSE,
                         error |->
                           "All face swap providers failed after retries",
                         error_code |-> "ALL_PROVIDERS_FAILED"]
    /\ \A i \in DOMAIN calls :
          calls[i].provider = NanoBanana
          => /\ calls[i].attempt = 0
             /\ \A j \in DOMAIN calls :
                   calls[j].provider = NanoBanana => j = i
             /\ (i < Len(calls))
                => /\ calls[i + 1].p = calls[i].p + 1
                   /\ calls[i + 1].attempt = 0
                   /\ calls[i + 1].wait = 0
    /\ (/\ pc = "done"
        /\ result.success
        /\ result.provider = NanoBanana)
       => /\ calls[Len(calls)].provider = NanoBanana
          /\ remote[1].answer = "output"

C22_Step ==
    abandoned' # abandoned
    => \/ /\ abandoned \subseteq abandoned'
          /\ pc \in {"nano_run", "replicate_run"}
          /\ remote'[Len(remote)].answer = "timeout"
       \/ /\ abandoned' \subseteq abandoned
          /\ UNCHANGED <<pc, p, attempt, calls, returns, backoffs, result,
                         remote>>

\* C22: a Nano-Banana run that exceeds its timeout makes the adapter return,
\* not raise, the failure whose error names the timeout; swap_face then
\* invokes Nano-Banana no more and goes on with attempt 0 of the next
\* provider, with no backoff (or ends with the aggregate failure); the
\* abandoned run's later end changes nothing of the call, and a success
\* attributed to Nano-Banana is the output of the run that was awaited.
C22_TimeoutIsFailure == []C22_Inv /\ [][C22_Step]_vars

C22_Witness ==
    /\ providers = <<NanoBanana, PiAPI, Replicate>>
    /\ arg.retry_count = 2
    /\ Len(returns) >= 2
    /\ ReturnedFailure(1)
    /\ returns[1].value.error = "Nano-Banana timeout (60s)"
    /\ calls[2].provider = PiAPI
    /\ backoffs = << >>
    /\ abandoned = {}
    /\ pc = "done"
    /\ result.success

\* C23: a target that is a data URI of a kind and format validation accepts
\* for the request's media kind (image: data:image/ with jpeg, jpg, png,
\* gif, webp, bmp; video: data:image/ or data:video/ with those and mp4,
\* avi, mov, webm), and a source that is one accepted for an image, are left
\* as they are by normalisation: the locals and the arguments of every
\* adapter invocation equal the caller's string.
C23_DataUriPreserved ==
    LET ImageUris ==
            { DATA \o IMAGE \o SLASH \o f \o BASE64_ \o <<"A","A","A","A">> :
                f \in {JPEG, JPG, PNG, GIF, WEBP, BMP} }
              \cup {UpperPngUriInput}
        VideoUris ==
            ImageUris \cup
            { DATA \o k \o SLASH \o f \o BASE64_ \o <<"A","A","A","A">> :
                k \in {IMAGE, VIDEO},
                f \in {JPEG, JPG, PNG, GIF, WEBP, BMP, MP4, AVI, MOV, WEBM} }
        Accepted(kind) == IF kind = "video" THEN VideoUris ELSE ImageUris
    IN  /\ (arg.target \in Accepted(arg.media_type) /\ arg.source = UrlInput)
           => /\ target = arg.target
              /\ \A i \in DOMAIN calls : calls[i].target = arg.target
        /\ (arg.source \in Accepted("image") /\ arg.target = UrlInput)
           => /\ source = arg.source
              /\ \A i \in DOMAIN calls : calls[i].source = arg.source

\* C24: in a gateway whose chain is built from the three concrete adapters,
\* no invocation ends by raising: whatever its remote calls do (errors and
\* timeouts included) each adapter returns, and what it returns after such an
\* exception has success = false; so, for every retry_count, swap_face
\* invokes each provider of the chain at most once, always as attempt 0, and
\* never waits for a backoff delay.
C24_AdaptersNeverRaise ==
    (\A k \in DOMAIN providers :
        providers[k] \in {NanoBanana, PiAPI, Replicate})
    => /\ \A i \in DOMAIN returns : returns[i].kind = "return"
       /\ \A i \in DOMAIN returns :
             (/\ remote # << >>
              /\ i = Len(calls)
              /\ remote[Len(remote)].answer
                    \in {"error", "http_error", "timeout"})
             => returns[i].value.success = FALSE
       /\ \A i, j \in DOMAIN calls : calls[i].p = calls[j].p => i = j
       /\ \A i \in DOMAIN calls : calls[i].attempt = 0 /\ calls[i].wait = 0
       /\ backoffs = << >>
       /\ pc # "backoff"
       /\ slept = 0

C24_Witness ==
    /\ providers = <<NanoBanana, PiAPI, Replicate>>
    /\ arg.retry_count = 2
    /\ pc = "done"
    /\ Len(calls) = 3
    /\ Len(returns) = 3
    /\ \A i \in 1..3 : ReturnedFailure(i)
    /\ returns[1].value.error = "Nano-Banana timeout (60s)"
    /\ returns[2].value.error = "str(e)"
    /\ returns[2].value.provider = PiAPI
    /\ returns[3].value.error = "All Replicate models failed or timed out"
    /\ remote[Len(remote)].answer = "error"
    /\ result = AllProvidersFailedResult
    /\ backoffs = << >>

==============================================================================
